---- MODULE Spec2Model ----
(***************************************************************************)
(* lake-html: conversion of Lake Markup Language (LML) to HTML.            *)
(*                                                                         *)
(* The model follows src/src/index.ts.  Documents, tags, payloads and the  *)
(* produced HTML are character strings; the two regular expressions of the *)
(* source are modelled by explicit scanners over those strings, and the    *)
(* platform functions the source calls (atob, TextDecoder, JSON.parse,     *)
(* String, property lookup) by what they compute on the bounded alphabet   *)
(* of the model.                                                           *)
(***************************************************************************)
EXTENDS Integers, Sequences, FiniteSets, TLC

VARIABLES
    heap,       \* the registries callers obtained from getBoxRenderers(), by reference
    ops,        \* how many times callers have obtained or changed a registry
    value,      \* the `value` argument of the current toHTML call
    renderers,  \* the `renderers` argument: 0 = omitted, else a reference into heap
    pc,         \* "idle" before toHTML has been called, "done" after it returned or threw
    stamp,      \* the value of ops when toHTML was last called
    threw,      \* TRUE when the call ended by an exception leaving toHTML
    html,       \* the string toHTML returned
    spans,      \* the matches of combinedRegex, in order, with their replacements
    console,    \* the console.error calls of the call, in order
    parsed      \* the object parseAttributes returned for the opening tag in value

vars == <<heap, ops, value, renderers, pc, stamp, threw, html, spans, console, parsed>>

(***************************************************************************)
(* Characters.  A string is a TLA+ string; a character is a string of      *)
(* length one.                                                             *)
(***************************************************************************)
At(s, i) == IF i >= 1 /\ i <= Len(s) THEN SubSeq(s, i, i) ELSE ""

\* a variant of From that loses the text after the last match
FromNothing(s, i) == ""

From(s, i) == IF i > Len(s) THEN "" ELSE SubSeq(s, i, Len(s))

Slice(s, i, j) ==
    IF j < i \/ i > Len(s) THEN ""
    ELSE SubSeq(s, i, IF j > Len(s) THEN Len(s) ELSE j)

CharsOf(s) == { SubSeq(s, i, i) : i \in 1..Len(s) }

IndexIn(s, c) == IF \E i \in 1..Len(s) : SubSeq(s, i, i) = c
                 THEN CHOOSE i \in 1..Len(s) :
                        /\ SubSeq(s, i, i) = c
                        /\ \A j \in 1..(i - 1) : SubSeq(s, j, j) # c
                 ELSE 0

\* the strings pieces[lo..hi] joined; the recursion halves the range
RECURSIVE Concat(_, _, _)
Concat(pieces, lo, hi) ==
    IF lo > hi THEN ""
    ELSE IF lo = hi THEN pieces[lo]
    ELSE Concat(pieces, lo, (lo + hi) \div 2) \o Concat(pieces, ((lo + hi) \div 2) + 1, hi)

UpperLetters == "ABCDEFGHIJKLMNOPQRSTUVWXYZ"

LowerLetters == "abcdefghijklmnopqrstuvwxyz"

Digits == "0123456789"

\* U+00A0, the no-break space
NBSP == " "

\* U+FFFD, what TextDecoder emits for a malformed byte sequence; it also
\* stands for every code point outside the alphabet of the model
REPLACEMENT == "�"

\* code points 32..95 in order
AsciiLow == " !\"#$%&'()*+,-./0123456789:;<=>?@ABCDEFGHIJKLMNOPQRSTUVWXYZ[\\]^_"

\* code points 97..126 in order
AsciiHigh == "abcdefghijklmnopqrstuvwxyz{|}~"

\* String.fromCodePoint on the alphabet of the model
CodePointChar(n) ==
    IF n >= 32 /\ n <= 95 THEN SubSeq(AsciiLow, n - 31, n - 31)
    ELSE IF n >= 97 /\ n <= 126 THEN SubSeq(AsciiHigh, n - 96, n - 96)
    ELSE IF n = 9 THEN "\t"
    ELSE IF n = 10 THEN "\n"
    ELSE IF n = 12 THEN "\f"
    ELSE IF n = 13 THEN "\r"
    ELSE IF n = 160 THEN NBSP
    ELSE REPLACEMENT

\* regular expression class \w
WordChars == CharsOf(UpperLetters) \cup CharsOf(LowerLetters) \cup CharsOf(Digits) \cup {"_"}

\* regular expression class \s, on the alphabet of the model
SpaceChars == {" ", "\t", "\n", "\f", "\r", NBSP}

\* String.prototype.toLowerCase, one character
LowerChar(c) ==
    IF c \in CharsOf(UpperLetters)
    THEN SubSeq(LowerLetters, IndexIn(UpperLetters, c), IndexIn(UpperLetters, c))
    ELSE c

toLowerCase(s) == Concat([i \in 1..Len(s) |-> LowerChar(SubSeq(s, i, i))], 1, Len(s))

\* a literal of a regular expression with the i flag, matched at position i
MatchesCI(s, i, lit) ==
    /\ i >= 1
    /\ i + Len(lit) - 1 <= Len(s)
    /\ \A k \in 1..Len(lit) :
          LowerChar(SubSeq(s, i + k - 1, i + k - 1)) = SubSeq(lit, k, k)

\* the first position j in from..(Len(s) + 1) that is past the end or has hit[j]
FirstAt(s, from, hit) ==
    CHOOSE j \in from..(Len(s) + 1) :
        /\ j > Len(s) \/ hit[j]
        /\ \A k \in from..(j - 1) : ~hit[k]

Greatest(S) == CHOOSE m \in S : \A o \in S : o <= m

\* the length of the longest run of characters of class cls starting at i
RunLen(s, i, cls) ==
    IF i > Len(s) THEN 0
    ELSE FirstAt(s, i, [j \in i..Len(s) |-> SubSeq(s, j, j) \notin cls]) - i

(***************************************************************************)
(* JavaScript values, as far as the source handles them: what JSON.parse   *)
(* returns, what a renderer returns, and the entries of a registry.        *)
(***************************************************************************)
Undefined == [t |-> "undefined"]

Null == [t |-> "null"]

Str(s) == [t |-> "string", s |-> s]

Bool(b) == [t |-> "boolean", b |-> b]

Num(n) == [t |-> "number", n |-> n]

\* an object: its own properties in insertion order, each [k |-> key, v |-> value]
Obj(props) == [t |-> "object", props |-> props]

Arr(items) == [t |-> "array", items |-> items]

\* a function value, by the name of the function
Fn(name) == [t |-> "function", f |-> name]

\* the outcome of an evaluation: a value, or an exception thrown
Ok(v) == [ok |-> TRUE, v |-> v]

Throw(e) == [ok |-> FALSE, e |-> e]

IsNullish(v) == v.t \in {"undefined", "null"}

\* ToBoolean
Truthy(v) ==
    CASE v.t \in {"undefined", "null"} -> FALSE
      [] v.t = "string" -> v.s # ""
      [] v.t = "boolean" -> v.b
      [] v.t = "number" -> v.n # 0
      [] OTHER -> TRUE

RECURSIVE NatToString(_)
NatToString(n) ==
    IF n < 10 THEN SubSeq(Digits, n + 1, n + 1)
    ELSE NatToString(n \div 10) \o SubSeq(Digits, (n % 10) + 1, (n % 10) + 1)

\* String(v), also what a template literal does with ${v}
RECURSIVE StringOf(_)
StringOf(v) ==
    CASE v.t = "undefined" -> "undefined"
      [] v.t = "null" -> "null"
      [] v.t = "string" -> v.s
      [] v.t = "boolean" -> IF v.b THEN "true" ELSE "false"
      [] v.t = "number" -> IF v.n < 0 THEN "-" \o NatToString(0 - v.n) ELSE NatToString(v.n)
      [] v.t = "object" -> "[object Object]"
      [] v.t = "array" ->
            LET RECURSIVE Join(_)
                Join(i) ==
                    IF i > Len(v.items) THEN ""
                    ELSE (IF i > 1 THEN "," ELSE "")
                         \o (IF IsNullish(v.items[i]) THEN "" ELSE StringOf(v.items[i]))
                         \o Join(i + 1)
            IN  Join(1)
      [] OTHER -> "function"

HasOwn(o, k) == o.t = "object" /\ \E i \in 1..Len(o.props) : o.props[i].k = k

OwnIndex(o, k) == CHOOSE i \in 1..Len(o.props) : o.props[i].k = k

\* o.k on a value that is not null or undefined, for a key that Object.prototype,
\* String.prototype, Number.prototype, Boolean.prototype and Array.prototype lack
GetOwn(o, k) == IF HasOwn(o, k) THEN o.props[OwnIndex(o, k)].v ELSE Undefined

\* o[k] = v on an object: an existing key keeps its place
SetOwn(o, k, v) ==
    IF HasOwn(o, k)
    THEN Obj([o.props EXCEPT ![OwnIndex(o, k)] = [k |-> k, v |-> v]])
    ELSE Obj(Append(o.props, [k |-> k, v |-> v]))

\* delete o[k]
DeleteOwn(o, k) ==
    Obj(SelectSeq(o.props, LAMBDA p : p.k # k))

\* Object.keys(o) of an object
ObjectKeys(o) == [i \in 1..Len(o.props) |-> o.props[i].k]

(***************************************************************************)
(* encodeHTMLEntities: every &, <, >, double quote and U+00A0 of the value *)
(* is replaced by what htmlEntityMap holds for it.                         *)
(***************************************************************************)
\* a variant of htmlEntityMap without the entry for the double quote
htmlEntityMapNoQuote(c) ==
    CASE c = "&" -> "&amp;"
      [] c = "<" -> "&lt;"
      [] c = ">" -> "&gt;"
      [] c = NBSP -> "&nbsp;"
      [] OTHER -> c

htmlEntityMap(c) ==
    CASE c = "&" -> "&amp;"
      [] c = "<" -> "&lt;"
      [] c = ">" -> "&gt;"
      [] c = "\"" -> "&quot;"
      [] c = NBSP -> "&nbsp;"
      [] OTHER -> c

EncodeString(s) == Concat([i \in 1..Len(s) |-> htmlEntityMap(SubSeq(s, i, i))], 1, Len(s))

\* called on a JavaScript value: anything but a string has no replace method
encodeHTMLEntities(v) ==
    IF v.t = "string" THEN Ok(Str(EncodeString(v.s))) ELSE Throw("TypeError")

(***************************************************************************)
(* decodeBase64: atob (the forgiving Base64 decoding), the copy of the     *)
(* binary string into a byte array, and TextDecoder.decode (UTF-8, not     *)
(* fatal).                                                                 *)
(***************************************************************************)
Base64Alphabet == "ABCDEFGHIJKLMNOPQRSTUVWXYZabcdefghijklmnopqrstuvwxyz0123456789+/"

AsciiWhitespace == {" ", "\t", "\n", "\f", "\r"}

StripWhitespace(s) ==
    Concat([i \in 1..Len(s) |->
               IF SubSeq(s, i, i) \in AsciiWhitespace THEN "" ELSE SubSeq(s, i, i)],
           1, Len(s))

\* one or two trailing "=" are dropped when the length is a multiple of four
StripPadding(s) ==
    IF Len(s) % 4 # 0 \/ Len(s) = 0 THEN s
    ELSE IF At(s, Len(s)) = "=" /\ At(s, Len(s) - 1) = "=" THEN Slice(s, 1, Len(s) - 2)
    ELSE IF At(s, Len(s)) = "=" THEN Slice(s, 1, Len(s) - 1)
    ELSE s

Sextet(c) == IndexIn(Base64Alphabet, c) - 1

\* byte k of the decoding: four sextets make three bytes; of a last group of two
\* or three sextets the bits that fill no byte are dropped
SextetAt(s, i) == IF i <= Len(s) THEN Sextet(At(s, i)) ELSE 0

\* the 24 bits of the group of four sextets that follows position g
GroupBits(s, g) ==
    SextetAt(s, g + 1) * 262144 + SextetAt(s, g + 2) * 4096
    + SextetAt(s, g + 3) * 64 + SextetAt(s, g + 4)

ByteOf(n, r) ==
    CASE r = 0 -> n \div 65536
      [] r = 1 -> (n \div 256) % 256
      [] OTHER -> n % 256

Base64Byte(s, k) == ByteOf(GroupBits(s, 4 * ((k - 1) \div 3)), (k - 1) % 3)

Base64Bytes(s) ==
    [k \in 1..(3 * (Len(s) \div 4) + (IF Len(s) % 4 = 0 THEN 0 ELSE (Len(s) % 4) - 1))
        |-> Base64Byte(s, k)]

\* atob, with its result already as the byte array decodeBase64 copies it into
ForgivingDecode(data) ==
    IF Len(data) % 4 = 1 \/ \E c \in CharsOf(data) : Sextet(c) < 0
    THEN Throw("InvalidCharacterError")
    ELSE Ok(Base64Bytes(data))

atob(s) == ForgivingDecode(StripPadding(StripWhitespace(s)))

IsContinuation(b) == b >= 128 /\ b <= 191

ByteAt(b, i) == IF i >= 1 /\ i <= Len(b) THEN b[i] ELSE 0

\* the first byte of a sequence of two bytes, and of three or four
IsLead2(x) == x >= 194 /\ x <= 223

IsLeadLong(x) == x >= 224 /\ x <= 244

\* a continuation byte at i that the sequence begun one, two or three bytes before takes
Taken(b, i) ==
    \/ IsLead2(ByteAt(b, i - 1)) \/ IsLeadLong(ByteAt(b, i - 1))
    \/ IsLeadLong(ByteAt(b, i - 2)) /\ IsContinuation(ByteAt(b, i - 1))
    \/ /\ ByteAt(b, i - 3) >= 240 /\ ByteAt(b, i - 3) <= 244
       /\ IsContinuation(ByteAt(b, i - 2)) /\ IsContinuation(ByteAt(b, i - 1))

\* what TextDecoder("utf-8") emits at byte i: a malformed sequence becomes U+FFFD.
\* Code points above U+00FF are outside the alphabet and come out as REPLACEMENT too.
DecodedAt(b, i) ==
    CASE b[i] < 128 -> CodePointChar(b[i])
      [] IsLead2(b[i]) ->
            IF IsContinuation(ByteAt(b, i + 1))
            THEN CodePointChar((b[i] - 192) * 64 + (b[i + 1] - 128))
            ELSE REPLACEMENT
      [] IsContinuation(b[i]) -> IF Taken(b, i) THEN "" ELSE REPLACEMENT
      [] OTHER -> REPLACEMENT

\* a leading byte order mark is dropped
HasBOM(b) == Len(b) >= 3 /\ b[1] = 239 /\ b[2] = 187 /\ b[3] = 191

TextDecode(b) ==
    Concat([i \in 1..Len(b) |-> IF i <= 3 /\ HasBOM(b) THEN "" ELSE DecodedAt(b, i)],
           1, Len(b))

\* the bytes of binaryString through TextDecoder; what atob throws is passed on
DecodeBinary(binaryString) ==
    IF binaryString.ok THEN Ok(TextDecode(binaryString.v)) ELSE binaryString

decodeBase64(s) == DecodeBinary(atob(s))

(***************************************************************************)
(* JSON.parse, by recursive descent.  A parse step yields                  *)
(* [ok |-> TRUE, v |-> value, next |-> position after it] or [ok |-> FALSE]. *)
(* Numbers are integer literals; an escape or code unit outside the        *)
(* alphabet of the model comes out as REPLACEMENT.                         *)
(***************************************************************************)
JsonWhitespace == {" ", "\t", "\n", "\r"}

JsonFail == [ok |-> FALSE]

JsonAt(v, next) == [ok |-> TRUE, v |-> v, next |-> next]

SkipWs(s, i) == i + RunLen(s, i, JsonWhitespace)

HexDigits == "0123456789abcdef"

IsHex(c) == c # "" /\ IndexIn(HexDigits, LowerChar(c)) > 0

HexValue(c) == IndexIn(HexDigits, LowerChar(c)) - 1

\* the characters of a string literal from i on, up to its closing quote
RECURSIVE ParseChars(_, _, _)
ParseChars(s, i, acc) ==
    LET c == At(s, i)
    IN  IF c = "" \/ c \in {"\t", "\n", "\f", "\r"} THEN JsonFail
        ELSE IF c = "\"" THEN JsonAt(Str(acc), i + 1)
        ELSE IF c = "\\" THEN
            LET e == At(s, i + 1)
            IN  CASE e \in {"\"", "\\", "/"} -> ParseChars(s, i + 2, acc \o e)
                  [] e = "b" -> ParseChars(s, i + 2, acc \o CodePointChar(8))
                  [] e = "f" -> ParseChars(s, i + 2, acc \o "\f")
                  [] e = "n" -> ParseChars(s, i + 2, acc \o "\n")
                  [] e = "r" -> ParseChars(s, i + 2, acc \o "\r")
                  [] e = "t" -> ParseChars(s, i + 2, acc \o "\t")
                  [] e = "u" /\ \A k \in 2..5 : IsHex(At(s, i + k)) ->
                        ParseChars(s, i + 6, acc \o CodePointChar(
                            HexValue(At(s, i + 2)) * 4096 + HexValue(At(s, i + 3)) * 256
                            + HexValue(At(s, i + 4)) * 16 + HexValue(At(s, i + 5))))
                  [] OTHER -> JsonFail
        ELSE ParseChars(s, i + 1, acc \o c)

RECURSIVE DigitsValue(_, _, _)
DigitsValue(s, i, n) ==
    IF n = 0 THEN 0
    ELSE DigitsValue(s, i, n - 1) * 10 + (IndexIn(Digits, At(s, i + n - 1)) - 1)

\* -? (0 | [1-9][0-9]*)
ParseNumber(s, i) ==
    LET neg == At(s, i) = "-"
        d == IF neg THEN i + 1 ELSE i
        n == IF At(s, d) = "0" THEN 1 ELSE RunLen(s, d, CharsOf(Digits))
    IN  IF n = 0 THEN JsonFail
        ELSE JsonAt(Num(IF neg THEN 0 - DigitsValue(s, d, n) ELSE DigitsValue(s, d, n)), d + n)

RECURSIVE ParseValue(_, _), ParseMembers(_, _, _), ParseElements(_, _, _)
RECURSIVE MemberValue(_, _, _), MemberEnd(_, _, _, _), MemberNext(_, _, _)
RECURSIVE ElementEnd(_, _, _), ElementNext(_, _, _)
\* a value at i (whitespace before it already skipped)
ParseValue(s, i) ==
    LET c == At(s, i)
    IN  CASE c = "\"" -> ParseChars(s, i + 1, "")
          [] c = "{" ->
                IF At(s, SkipWs(s, i + 1)) = "}"
                THEN JsonAt(Obj(<<>>), SkipWs(s, i + 1) + 1)
                ELSE ParseMembers(s, SkipWs(s, i + 1), Obj(<<>>))
          [] c = "[" ->
                IF At(s, SkipWs(s, i + 1)) = "]"
                THEN JsonAt(Arr(<<>>), SkipWs(s, i + 1) + 1)
                ELSE ParseElements(s, SkipWs(s, i + 1), <<>>)
          [] c = "-" \/ c \in CharsOf(Digits) -> ParseNumber(s, i)
          [] Slice(s, i, i + 3) = "true" /\ i + 3 <= Len(s) -> JsonAt(Bool(TRUE), i + 4)
          [] Slice(s, i, i + 4) = "false" /\ i + 4 <= Len(s) -> JsonAt(Bool(FALSE), i + 5)
          [] Slice(s, i, i + 3) = "null" /\ i + 3 <= Len(s) -> JsonAt(Null, i + 4)
          [] OTHER -> JsonFail

\* "key" : value, then "," and more members or "}"
ParseMembers(s, i, acc) ==
    IF At(s, i) # "\"" THEN JsonFail ELSE MemberValue(s, acc, ParseChars(s, i + 1, ""))

\* after the key: the colon and the value
MemberValue(s, acc, key) ==
    IF ~key.ok \/ At(s, SkipWs(s, key.next)) # ":" THEN JsonFail
    ELSE MemberEnd(s, acc, key.v.s, ParseValue(s, SkipWs(s, SkipWs(s, key.next) + 1)))

\* after the value: the member is set, a later duplicate key overwriting
MemberEnd(s, acc, k, val) ==
    IF ~val.ok THEN JsonFail ELSE MemberNext(s, SetOwn(acc, k, val.v), SkipWs(s, val.next))

MemberNext(s, obj, j) ==
    IF At(s, j) = "}" THEN JsonAt(obj, j + 1)
    ELSE IF At(s, j) = "," THEN ParseMembers(s, SkipWs(s, j + 1), obj)
    ELSE JsonFail

ParseElements(s, i, acc) == ElementEnd(s, acc, ParseValue(s, i))

ElementEnd(s, acc, val) ==
    IF ~val.ok THEN JsonFail ELSE ElementNext(s, Append(acc, val.v), SkipWs(s, val.next))

ElementNext(s, items, j) ==
    IF At(s, j) = "]" THEN JsonAt(Arr(items), j + 1)
    ELSE IF At(s, j) = "," THEN ParseElements(s, SkipWs(s, j + 1), items)
    ELSE JsonFail

\* the whole text must be one value, whitespace around it allowed
WholeText(text, r) ==
    IF r.ok /\ SkipWs(text, r.next) = Len(text) + 1 THEN Ok(r.v) ELSE Throw("SyntaxError")

JSONparse(text) == WholeText(text, ParseValue(text, SkipWs(text, 1)))

(***************************************************************************)
(* parseAttributes.  Its regular expression is: one or more \s, then one  *)
(* of key=value (value: a run free of \s, quotes and angle brackets), key, *)
(* =, double-quoted value, or key, =, single-quoted value, then a          *)
(* lookahead for \s, / or >.  It is applied with the g flag: each exec     *)
(* finds the leftmost match at or after lastIndex.  In \s+ and in the key  *)
(* only the longest run can be followed by what the pattern asks next, so  *)
(* backtracking matters in the unquoted value alone, which gives           *)
(* characters back until the lookahead holds.                              *)
(***************************************************************************)
KeyChars == WordChars \cup {"-", ":"}

\* the key class of the two quoted forms also holds the double quote
QuotedKeyChars == KeyChars \cup {"\""}

\* what ends an unquoted value: \s, a quote, an angle bracket
UnquotedStop == SpaceChars \cup {"\"", "'", "<", ">"}

\* (?=[\s/>])
Lookahead(s, i) == At(s, i) \in SpaceChars \cup {"/", ">"}

RunLenNot(s, i, stop) ==
    IF i > Len(s) THEN 0
    ELSE FirstAt(s, i, [j \in i..Len(s) |-> SubSeq(s, j, j) \in stop]) - i

NoMatch == [ok |-> FALSE]

AttrMatch(key, val, end) == [ok |-> TRUE, key |-> key, val |-> val, end |-> end]

\* the lengths the unquoted value at v0 can have: the lookahead must hold after it
UnquotedFits(s, v0) == { n \in 1..RunLenNot(s, v0, UnquotedStop) : Lookahead(s, v0 + n) }

\* the greedy value gives characters back, so the greatest length that fits is taken
UnquotedValue(s, q, K, fits) ==
    IF fits = {} THEN NoMatch
    ELSE AttrMatch(Slice(s, q, q + K - 1),
                   Slice(s, q + K + 1, q + K + Greatest(fits)),
                   q + K + 1 + Greatest(fits))

UnquotedKey(s, q, K) ==
    IF K >= 1 /\ At(s, q + K) = "="
    THEN UnquotedValue(s, q, K, UnquotedFits(s, q + K + 1))
    ELSE NoMatch

\* groups 1 and 2: key=value, the key starting at q
UnquotedAt(s, q) == UnquotedKey(s, q, RunLen(s, q, KeyChars))

QuotedValue(s, q, quote, K, V) ==
    IF At(s, q + K + 2 + V) = quote /\ Lookahead(s, q + K + 3 + V)
    THEN AttrMatch(Slice(s, q, q + K - 1), Slice(s, q + K + 2, q + K + 1 + V), q + K + 3 + V)
    ELSE NoMatch

QuotedKey(s, q, quote, K) ==
    IF K >= 1 /\ At(s, q + K) = "=" /\ At(s, q + K + 1) = quote
    THEN QuotedValue(s, q, quote, K, RunLenNot(s, q + K + 2, {quote}))
    ELSE NoMatch

\* groups 3 and 4 (double quotes) or 5 and 6 (single quotes): a quoted value
QuotedAt(s, q, quote) == QuotedKey(s, q, quote, RunLen(s, q, QuotedKeyChars))

\* a | b of a regular expression: the first alternative that matches
FirstOk(a, b) == IF a.ok THEN a ELSE b

\* the three alternatives at q, after the run of \s that began at p
AttrAlternatives(s, p, q) ==
    IF q = p THEN NoMatch
    ELSE FirstOk(UnquotedAt(s, q), FirstOk(QuotedAt(s, q, "\""), QuotedAt(s, q, "'")))

\* a match of the expression that starts at p
AttrMatchAt(s, p) == AttrAlternatives(s, p, p + RunLen(s, p, SpaceChars))

\* attributes[key] = value, on an object literal: assigning a string to
\* __proto__ changes nothing
AssignAttribute(attributes, key, val) ==
    IF key = "__proto__" THEN attributes ELSE SetOwn(attributes, key, Str(val))

\* the while loop over reg.exec(tag), lastIndex = from - 1
RECURSIVE ExecLoop(_, _, _), ExecAt(_, _, _), ExecBody(_, _, _)
ExecLoop(tag, from, attributes) ==
    ExecAt(tag, attributes,
           IF from > Len(tag) THEN from
           ELSE FirstAt(tag, from, [j \in from..Len(tag) |-> AttrMatchAt(tag, j).ok]))

\* exec found a match at p, or none when p is past the end
ExecAt(tag, attributes, p) ==
    IF p > Len(tag) THEN attributes ELSE ExecBody(tag, attributes, AttrMatchAt(tag, p))

\* the body of the loop: key from group 1, 3 or 5, value from group 2, 4 or 6
ExecBody(tag, attributes, m) ==
    ExecLoop(tag, m.end, AssignAttribute(attributes, toLowerCase(m.key), m.val))

parseAttributes(tag) == ExecLoop(tag, 1, Obj(<<>>))

(***************************************************************************)
(* The renderers.  A renderer yields Ok(node) or Throw(e); reading a       *)
(* property of null throws, as does encode on anything but a string.       *)
(***************************************************************************)
Prop(k, v) == [k |-> k, v |-> v]

\* the longest run of [\w\-] that ends the string, or the empty string
IdChars == WordChars \cup {"-"}

\* the lengths of the runs of [\w\-] that end the string
IdRuns(url) ==
    { n \in 1..Len(url) :
        \A i \in (Len(url) - n + 1)..Len(url) : SubSeq(url, i, i) \in IdChars }

\* match ? match[0] : ''
MatchOrEmpty(url, runs) ==
    IF runs = {} THEN "" ELSE SubSeq(url, Len(url) - Greatest(runs) + 1, Len(url))

\* a variant that takes the whole url for the id
extractWholeUrl(url) == url

extractIdFromUrl(url) == MatchOrEmpty(url, IdRuns(url))

\* a variant of the spread that adds the key whatever cond is
SpreadAlways(obj, cond, key, val) == SetOwn(obj, key, val)

\* { ...obj, ...(cond && { key: val }) }: a falsy cond spreads nothing
SpreadIf(obj, cond, key, val) == IF Truthy(cond) THEN SetOwn(obj, key, val) ELSE obj

\* a variant of hr that reads a property of the box value before it answers
hrReadingValue(boxValue) ==
    IF IsNullish(boxValue) THEN Throw("TypeError")
    ELSE Ok(Obj(<<Prop("tagName", Str("div")),
                  Prop("attributes", Obj(<<Prop("class", Str("lake-box-block lake-hr"))>>)),
                  Prop("innerHTML", Str("<hr />"))>>))

hr(boxValue) ==
    Ok(Obj(<<Prop("tagName", Str("div")),
             Prop("attributes", Obj(<<Prop("class", Str("lake-box-block lake-hr"))>>)),
             Prop("innerHTML", Str("<hr />"))>>))

image(boxValue) ==
    IF IsNullish(boxValue) THEN Throw("TypeError")
    ELSE LET a1 == Obj(<<Prop("src", GetOwn(boxValue, "url"))>>)
             a2 == SpreadIf(a1, GetOwn(boxValue, "width"), "width", GetOwn(boxValue, "width"))
             a3 == SpreadIf(a2, GetOwn(boxValue, "height"), "height", GetOwn(boxValue, "height"))
             a4 == SpreadIf(a3, GetOwn(boxValue, "caption"), "alt", GetOwn(boxValue, "caption"))
         IN  Ok(Obj(<<Prop("tagName", Str("img")),
                      Prop("attributes", SetOwn(a4, "border", Str("0"))),
                      Prop("isVoid", Bool(TRUE))>>))

file(boxValue) ==
    IF IsNullish(boxValue) THEN Throw("TypeError")
    ELSE LET text == encodeHTMLEntities(GetOwn(boxValue, "name"))
         IN  IF ~text.ok THEN text
             ELSE Ok(Obj(<<Prop("tagName", Str("a")),
                           Prop("attributes", Obj(<<Prop("href", GetOwn(boxValue, "url")),
                                                    Prop("target", Str("_blank"))>>)),
                           Prop("innerHTML", text.v)>>))

codeBlock(boxValue) ==
    IF IsNullish(boxValue) THEN Throw("TypeError")
    ELSE LET code == encodeHTMLEntities(GetOwn(boxValue, "code"))
         IN  IF ~code.ok THEN code
             ELSE Ok(Obj(<<Prop("tagName", Str("pre")),
                           Prop("attributes",
                                Obj(<<Prop("class", Str("lang-" \o StringOf(GetOwn(boxValue, "lang"))))>>)),
                           Prop("innerHTML", Str("<code>" \o code.v.s \o "</code>"))>>))

emoji(boxValue) ==
    IF IsNullish(boxValue) THEN Throw("TypeError")
    ELSE Ok(Obj(<<Prop("tagName", Str("img")),
                  Prop("attributes", Obj(<<Prop("src", GetOwn(boxValue, "url")),
                                           Prop("width", Str("32")),
                                           Prop("height", Str("32")),
                                           Prop("border", Str("0"))>>)),
                  Prop("isVoid", Bool(TRUE))>>))

equation(boxValue) ==
    IF IsNullish(boxValue) THEN Throw("TypeError")
    ELSE Ok(Obj(<<Prop("tagName", Str("code")),
                  Prop("innerHTML", GetOwn(boxValue, "code"))>>))

mention(boxValue) ==
    IF IsNullish(boxValue) THEN Throw("TypeError")
    ELSE LET nickname == GetOwn(boxValue, "nickname")
             text == encodeHTMLEntities(IF IsNullish(nickname) THEN GetOwn(boxValue, "name")
                                        ELSE nickname)
         IN  IF ~text.ok THEN text
             ELSE Ok(Obj(<<Prop("tagName", Str("a")),
                           Prop("attributes",
                                Obj(<<Prop("href", Str("/" \o StringOf(GetOwn(boxValue, "name")))),
                                      Prop("target", Str("_blank"))>>)),
                           Prop("innerHTML", text.v)>>))

\* video and twitter: an iframe whose src, when url is truthy, is base followed by the id
Embed(boxValue, base, fixed) ==
    IF IsNullish(boxValue) THEN Throw("TypeError")
    ELSE LET url == GetOwn(boxValue, "url")
             src == IF Truthy(url)
                    THEN <<Prop("src", Str(base \o extractIdFromUrl(StringOf(url))))>>
                    ELSE <<>>
         IN  Ok(Obj(<<Prop("tagName", Str("iframe")),
                      Prop("attributes", Obj(src \o fixed))>>))

video(boxValue) ==
    Embed(boxValue, "https://www.youtube.com/embed/",
          <<Prop("title", Str("YouTube video player")),
            Prop("frameborder", Str("0")),
            Prop("allow", Str("accelerometer; autoplay; clipboard-write; encrypted-media; gyroscope; picture-in-picture; web-share")),
            Prop("referrerpolicy", Str("strict-origin-when-cross-origin")),
            Prop("allowfullscreen", Str("true")),
            Prop("style", Str("width: 560px; height: 315px;"))>>)

twitter(boxValue) ==
    Embed(boxValue, "https://platform.twitter.com/embed/Tweet.html?id=",
          <<Prop("title", Str("Twitter tweet")),
            Prop("scrolling", Str("no")),
            Prop("frameborder", Str("0")),
            Prop("allowtransparency", Str("true")),
            Prop("allowfullscreen", Str("true")),
            Prop("style", Str("width: 550px; height: 300px;"))>>)

\* the object literal getBoxRenderers returns
BuiltinNames == <<"hr", "image", "file", "codeBlock", "emoji", "equation", "mention", "video", "twitter">>

getBoxRenderers == Obj([i \in 1..Len(BuiltinNames) |-> Prop(BuiltinNames[i], Fn(BuiltinNames[i]))])

(***************************************************************************)
(* Renderers a caller registers, as the README shows them, and one that    *)
(* raises.                                                                 *)
(***************************************************************************)
\* README, overriding an existing renderer: the markup is put under textContent
figure(boxValue) ==
    IF IsNullish(boxValue) THEN Throw("TypeError")
    ELSE LET caption == GetOwn(boxValue, "caption")
             alt == encodeHTMLEntities(IF Truthy(caption) THEN caption ELSE Str(""))
         IN  IF ~alt.ok THEN alt
             ELSE Ok(Obj(<<Prop("tagName", Str("figure")),
                           Prop("attributes", Obj(<<Prop("class", Str("custom-image"))>>)),
                           Prop("textContent",
                                Str("<img src=\"" \o StringOf(GetOwn(boxValue, "url"))
                                    \o "\" alt=\"" \o alt.v.s \o "\" />"))>>))

\* README, adding a new box type: the renderer returns a string
card(boxValue) ==
    IF IsNullish(boxValue) THEN Throw("TypeError")
    ELSE LET title == encodeHTMLEntities(GetOwn(boxValue, "title"))
             summary == encodeHTMLEntities(GetOwn(boxValue, "summary"))
         IN  IF ~title.ok THEN title
             ELSE IF ~summary.ok THEN summary
             ELSE Ok(Str("<div class=\"card\">\n    <h3>" \o title.v.s \o "</h3>\n    <p>"
                         \o summary.v.s \o "</p>\n  </div>"))

\* a renderer that raises whatever it is given
raise(boxValue) == Throw("Error")

(***************************************************************************)
(* renderers[attributes.name]: the property is read from the registry and, *)
(* when the registry has no such key of its own, from Object.prototype.    *)
(***************************************************************************)
ObjectPrototype(key) ==
    CASE key = "constructor" -> Fn("Object")
      [] key = "toString" -> Fn("Object.prototype.toString")
      [] key = "valueOf" -> Fn("Object.prototype.valueOf")
      [] key = "hasOwnProperty" -> Fn("Object.prototype.hasOwnProperty")
      [] key = "__proto__" -> Obj(<<>>)
      [] OTHER -> Undefined

\* a variant of the lookup that reads the built-in set whatever registry is passed
LookupBuiltin(registry, key) ==
    IF HasOwn(getBoxRenderers, key) THEN GetOwn(getBoxRenderers, key) ELSE ObjectPrototype(key)

LookupRenderer(registry, key) ==
    IF HasOwn(registry, key) THEN GetOwn(registry, key) ELSE ObjectPrototype(key)

\* render(boxValue, encodeHTMLEntities), called with no receiver
Invoke(render, boxValue) ==
    IF render.t # "function" THEN Throw("TypeError")
    ELSE CASE render.f = "hr" -> hr(boxValue)
           [] render.f = "image" -> image(boxValue)
           [] render.f = "file" -> file(boxValue)
           [] render.f = "codeBlock" -> codeBlock(boxValue)
           [] render.f = "emoji" -> emoji(boxValue)
           [] render.f = "equation" -> equation(boxValue)
           [] render.f = "mention" -> mention(boxValue)
           [] render.f = "video" -> video(boxValue)
           [] render.f = "twitter" -> twitter(boxValue)
           [] render.f = "figure" -> figure(boxValue)
           [] render.f = "card" -> card(boxValue)
           [] render.f = "raise" -> raise(boxValue)
           \* Object(v): v itself when it is an object, else a new object with
           \* none of the properties toBoxHTML reads
           [] render.f = "Object" ->
                 Ok(IF boxValue.t \in {"object", "array"} THEN boxValue ELSE Obj(<<>>))
           [] render.f = "Object.prototype.toString" -> Ok(Str("[object Undefined]"))
           \* valueOf and hasOwnProperty convert the missing receiver to an object
           [] OTHER -> Throw("TypeError")

(***************************************************************************)
(* serializeAttributes and toBoxHTML                                       *)
(***************************************************************************)
\* the own enumerable properties of a truthy value, as Object.keys lists them
Entries(v) ==
    CASE v.t = "object" -> v.props
      [] v.t = "array" -> [i \in 1..Len(v.items) |-> Prop(NatToString(i - 1), v.items[i])]
      [] v.t = "string" -> [i \in 1..Len(v.s) |-> Prop(NatToString(i - 1), Str(SubSeq(v.s, i, i)))]
      [] OTHER -> <<>>

\* key="value", the value through String and encodeHTMLEntities
SerializeOne(p) == p.k \o "=\"" \o EncodeString(StringOf(p.v)) \o "\""

RECURSIVE JoinAttributes(_, _)
JoinAttributes(entries, i) ==
    IF i > Len(entries) THEN ""
    ELSE (IF i > 1 THEN " " ELSE "") \o SerializeOne(entries[i]) \o JoinAttributes(entries, i + 1)

serializeAttributes(attrs) == JoinAttributes(Entries(attrs), 1)

toBoxHTML(node) ==
    IF IsNullish(node) THEN Throw("TypeError")
    ELSE LET tagName == StringOf(GetOwn(node, "tagName"))
             attributes == GetOwn(node, "attributes")
             innerHTML == GetOwn(node, "innerHTML")
             open == "<" \o tagName
                     \o (IF Truthy(attributes) THEN " " \o serializeAttributes(attributes) ELSE "")
         IN  IF GetOwn(node, "isVoid") = Bool(TRUE)
             THEN Ok(open \o " />")
             ELSE Ok(open \o ">"
                     \o (IF IsNullish(innerHTML) THEN "" ELSE StringOf(innerHTML))
                     \o "</" \o tagName \o ">")

(***************************************************************************)
(* toHTML.  combinedRegex has three alternatives, tried in order at each   *)
(* position, with the flags g and i:                                       *)
(*   1. <lake-box, one or more characters other than >, then > (group 1,   *)
(*      the opening tag), then lazily anything up to the first </lake-box> *)
(*      or else the end of the input;                                      *)
(*   2. <anchor, any \s, />;      3. <focus, any \s, />.                   *)
(***************************************************************************)
Match(end, boxOpen) == [ok |-> TRUE, end |-> end, boxOpen |-> boxOpen]

\* a variant that never finds a closing tag
CloseFromNowhere(s, i) == Len(s) + 1

\* the first position at or after i where </lake-box> starts, else past the end
CloseFrom(s, i) ==
    IF i > Len(s) THEN Len(s) + 1
    ELSE FirstAt(s, i, [j \in i..Len(s) |-> MatchesCI(s, j, "</lake-box>")])

\* the match ends after </lake-box> at k, or at the end of the input
BoxClose(s, p, g, k) ==
    Match((IF k > Len(s) THEN k ELSE k + 11), Slice(s, p, p + 9 + g))

\* g characters other than > follow <lake-box
BoxOpen(s, p, g) ==
    IF g >= 1 /\ At(s, p + 9 + g) = ">"
    THEN BoxClose(s, p, g, CloseFrom(s, p + 10 + g))
    ELSE NoMatch

BoxAt(s, p) ==
    IF MatchesCI(s, p, "<lake-box") THEN BoxOpen(s, p, RunLenNot(s, p + 9, {">"}))
    ELSE NoMatch

MarkerEnd(s, q) ==
    IF At(s, q) = "/" /\ At(s, q + 1) = ">" THEN Match(q + 2, "") ELSE NoMatch

\* <anchor\s*/> or <focus\s*/>: group 1 stays undefined
MarkerAt(s, p, tag) ==
    IF MatchesCI(s, p, tag)
    THEN MarkerEnd(s, p + Len(tag) + RunLen(s, p + Len(tag), SpaceChars))
    ELSE NoMatch

MatchAt(s, p) ==
    IF At(s, p) # "<" THEN NoMatch
    ELSE FirstOk(BoxAt(s, p), FirstOk(MarkerAt(s, p, "<anchor"), MarkerAt(s, p, "<focus")))

NoneIfPastEnd(s, p) == IF p > Len(s) THEN 0 ELSE p

\* the leftmost position at or after i where combinedRegex matches, else 0
NextMatch(s, i) ==
    NoneIfPastEnd(s, IF i > Len(s) THEN i ELSE FirstAt(s, i, [j \in i..Len(s) |-> MatchAt(s, j).ok]))

\* what one call of the replace callback yields
Replaced(text, errors) == [threw |-> FALSE, text |-> text, errors |-> errors]

\* return toBoxHTML(node)
ReturnNode(node) == IF node.ok THEN toBoxHTML(node.v) ELSE node

\* const node = render(boxValue, encodeHTMLEntities)
RenderValue(render, boxValue) ==
    IF boxValue.ok THEN ReturnNode(Invoke(render, boxValue.v)) ELSE boxValue

\* JSON.parse(decodeBase64(attributes.value))
ParseDecoded(decoded) == IF decoded.ok THEN JSONparse(decoded.v) ELSE decoded

\* attributes.value ? JSON.parse(decodeBase64(attributes.value)) : {}
BoxValue(val) == IF Truthy(val) THEN ParseDecoded(decodeBase64(val.s)) ELSE Ok(Obj(<<>>))

\* the body of the try block
TryRender(attributes, render) == RenderValue(render, BoxValue(GetOwn(attributes, "value")))

\* a variant of the catch clause that throws the exception again
Rethrow(e) == [threw |-> TRUE, text |-> "", errors |-> <<e>>]

\* a variant of the catch clause that logs nothing
CatchSilently(e) == Replaced("", <<>>)

\* the catch clause: console.error, then on to the return of the empty string
Catch(e) == Replaced("", <<e>>)

\* try ... catch around the body
TryCatch(r) == IF r.ok THEN Replaced(r.v, <<>>) ELSE Catch(r.e)

\* if (render) ...; return ''
RenderIf(attributes, render) ==
    IF Truthy(render) THEN TryCatch(TryRender(attributes, render)) ELSE Replaced("", <<>>)

\* const render = renderers[attributes.name]
RenderBox(attributes, registry) ==
    RenderIf(attributes, LookupRenderer(registry, StringOf(GetOwn(attributes, "name"))))

\* the callback passed to value.replace
Replacer(boxOpen, registry) ==
    IF boxOpen # "" THEN RenderBox(parseAttributes(boxOpen), registry)
    ELSE Replaced("", <<>>)

Span(from, to, open, text, errors) ==
    [from |-> from, to |-> to, open |-> open, text |-> text, errors |-> errors]

\* value.replace(combinedRegex, callback) from position i on; done holds what was
\* produced up to there
RECURSIVE ReplaceFrom(_, _, _, _), ReplaceAt(_, _, _, _, _), ReplaceWith(_, _, _, _, _, _, _)
ReplaceFrom(s, i, registry, done) == ReplaceAt(s, i, registry, done, NextMatch(s, i))

\* the next match starts at p; p = 0 when there is none
ReplaceAt(s, i, registry, done, p) ==
    IF p = 0 THEN [done EXCEPT !.html = @ \o From(s, i)]
    ELSE ReplaceWith(s, i, registry, done, p, MatchAt(s, p),
                     Replacer(MatchAt(s, p).boxOpen, registry))

\* the match m at p is replaced by what the callback gave, r
ReplaceWith(s, i, registry, done, p, m, r) ==
    IF r.threw
    THEN [done EXCEPT !.threw = TRUE, !.console = @ \o r.errors]
    ELSE ReplaceFrom(s, m.end, registry,
           [threw |-> FALSE,
            html |-> done.html \o Slice(s, i, p - 1) \o r.text,
            spans |-> Append(done.spans, Span(p, m.end - 1, m.boxOpen, r.text, Len(r.errors))),
            console |-> done.console \o r.errors])

\* a variant in which the default is one object, the one the accessor handed out first
SharedRegistry(h, ref) ==
    IF ref = 0 THEN (IF h # <<>> THEN h[1] ELSE getBoxRenderers) ELSE h[ref]

\* renderers ?? getBoxRenderers(): ref 0 is the omitted argument
ActiveRegistry(h, ref) == IF ref = 0 THEN getBoxRenderers ELSE h[ref]

toHTML(s, registry) ==
    ReplaceFrom(s, 1, registry, [threw |-> FALSE, html |-> "", spans |-> <<>>, console |-> <<>>])

(***************************************************************************)
(* Documents.  Payloads are Base64 of the JSON text named in the comment.  *)
(***************************************************************************)
\* {}
PayloadEmpty == "e30="

\* {} without its padding, which atob accepts
PayloadUnpadded == "e30"

\* {"url":"a.png","width":"100","height":"200","caption":"foo"}
PayloadImage == "eyJ1cmwiOiJhLnBuZyIsIndpZHRoIjoiMTAwIiwiaGVpZ2h0IjoiMjAwIiwiY2FwdGlvbiI6ImZvbyJ9"

\* {"url":"https://x.com/Interior/status/4634","name":"smile","title":"T",
\*  "summary":"S","lang":"html","code":"a^2"}
PayloadTweet == "eyJ1cmwiOiJodHRwczovL3guY29tL0ludGVyaW9yL3N0YXR1cy80NjM0IiwibmFtZSI6InNtaWxlIiwidGl0bGUiOiJUIiwic3VtbWFyeSI6IlMiLCJsYW5nIjoiaHRtbCIsImNvZGUiOiJhXjIifQ=="

\* every key holds reserved characters: url is a.png?id=1&name=<tag> followed by a
\* double quote and U+00A0, caption a<b, name R&D, nickname me in double quotes,
\* lang x, double quote, y, code a p element with a class, title T<1>, summary S&T
PayloadSpecial == "eyJ1cmwiOiJhLnBuZz9pZD0xJm5hbWU9PHRhZz5cIsKgIiwiY2FwdGlvbiI6ImE8YiIsIm5hbWUiOiJSJkQiLCJuaWNrbmFtZSI6IlwibWVcIiIsImxhbmciOiJ4XCJ5IiwiY29kZSI6IjxwIGNsYXNzPVwiZm9vXCI+YmFyPC9wPiIsInRpdGxlIjoiVDwxPiIsInN1bW1hcnkiOiJTJlQifQ=="

\* {"url":12,"width":0,"name":7,"code":null,"lang":true}
PayloadNumbers == "eyJ1cmwiOjEyLCJ3aWR0aCI6MCwibmFtZSI6NywiY29kZSI6bnVsbCwibGFuZyI6dHJ1ZX0="

\* {"url":"a.png","caption":"c"}
PayloadCaption == "eyJ1cmwiOiJhLnBuZyIsImNhcHRpb24iOiJjIn0="

\* {"title":"T","summary":"S"}
PayloadCard == "eyJ0aXRsZSI6IlQiLCJzdW1tYXJ5IjoiUyJ9"

\* null
PayloadNull == "bnVsbA=="

\* {bad, which is not JSON
PayloadBadJson == "e2JhZA=="

\* not Base64: - and ! are outside the alphabet
PayloadBadBase64 == "invalid-base64!"

\* the value attribute of an opening tag: absent, empty, or a payload
ValueAttrs ==
    {"", " value=\"\""}
    \cup { " value=\"" \o v \o "\"" :
              v \in {PayloadEmpty, PayloadUnpadded, PayloadImage, PayloadTweet, PayloadSpecial,
                     PayloadNumbers, PayloadNull, PayloadBadJson, PayloadBadBase64} }

\* the box names the documents use: the built-in ones, the ones the caller registry
\* adds, names no registry holds, and names Object.prototype holds
BoxNames == {"hr", "image", "file", "codeBlock", "emoji", "equation", "mention", "video",
             "twitter", "card", "boom", "unknown", "IMAGE", "constructor", "toString",
             "valueOf", "__proto__"}

\* the name attribute of an opening tag: absent, a bare flag, or a name
NameAttrs == {"", " data-hidden"} \cup { " name=\"" \o n \o "\"" : n \in BoxNames }

\* one box between two letters
BoxDocs == { "a<lake-box" \o n \o v \o "></lake-box>b" : n \in NameAttrs, v \in ValueAttrs }

\* what the documents of several parts are made of: text, markers and near markers,
\* boxes that are closed, unterminated, failing, unknown, or hold content
Parts == {"Hello",
          "<p>a > b</p>",
          "<lake-box>",
          "</lake-box>",
          "<anchor />",
          "<focus/>",
          "<ANCHOR\n/>",
          "<focus / >",
          "<lake-box name=\"hr\"></lake-box>",
          "<lake-box name=hr>",
          "<Lake-Box name='image' value=eyJ1cmwiOiJ0ZXN0LnBuZyJ9>inner<focus /></LAKE-BOX>",
          "<lake-box name=\"image\" value=\"invalid-base64!\"></lake-box>",
          "<lake-box name=\"file\"></lake-box>",
          "<lake-box name=\"unknown\" value=\"e30=\"></lake-box>"}

\* the most parts a document is made of
MaxParts == 2

RECURSIVE DocsOfParts(_)
DocsOfParts(n) ==
    IF n = 0 THEN {""} ELSE { d \o q : d \in DocsOfParts(n - 1), q \in Parts }

Docs == BoxDocs \cup UNION { DocsOfParts(n) : n \in 0..MaxParts }

(***************************************************************************)
(* The registry of a caller that followed the README: obtained from the    *)
(* accessor, image replaced, card added, and a renderer that raises added. *)
(***************************************************************************)
CallerRegistry ==
    SetOwn(SetOwn(SetOwn(getBoxRenderers, "image", Fn("figure")), "card", Fn("card")),
           "boom", Fn("raise"))

(***************************************************************************)
(* The operations                                                          *)
(***************************************************************************)
\* the most operations callers perform on registries: obtaining one, changing one
MaxOps == 3

\* what callers assign to a registry: a replacement, an addition
CallerEdits == {<<"image", "figure">>, <<"card", "card">>}

\* what callers delete from a registry
CallerDeletes == {"hr"}

\* the documents converted while registries are being changed
RegistryDocs ==
    {"<lake-box name=\"image\" value=\"" \o PayloadCaption \o "\"></lake-box>"
        \o "<lake-box name=\"hr\"></lake-box>",
     "<lake-box name=\"card\" value=\"" \o PayloadCard \o "\"></lake-box>"
        \o "<lake-box name=\"emoji\"></lake-box>",
     "<p>Hello<anchor /></p>"}

\* a caller calls getBoxRenderers() and keeps the object
GetBoxRenderers ==
    /\ ops < MaxOps
    /\ heap' = Append(heap, getBoxRenderers)
    /\ ops' = ops + 1
    /\ UNCHANGED <<value, renderers, pc, stamp, threw, html, spans, console, parsed>>

\* a caller assigns rules[key] = f on a registry it holds
SetRenderer(ref, key, f) ==
    /\ ops < MaxOps
    /\ heap' = [heap EXCEPT ![ref] = SetOwn(@, key, Fn(f))]
    /\ ops' = ops + 1
    /\ UNCHANGED <<value, renderers, pc, stamp, threw, html, spans, console, parsed>>

\* a caller deletes rules[key] on a registry it holds
DeleteRenderer(ref, key) ==
    /\ ops < MaxOps
    /\ heap' = [heap EXCEPT ![ref] = DeleteOwn(@, key)]
    /\ ops' = ops + 1
    /\ UNCHANGED <<value, renderers, pc, stamp, threw, html, spans, console, parsed>>

\* toHTML(value) when ref = 0, toHTML(value, rules) with the registry at ref otherwise
Returned(ref, r) ==
    /\ pc' = "done"
    /\ renderers' = ref
    /\ stamp' = ops
    /\ threw' = r.threw
    /\ html' = r.html
    /\ spans' = r.spans
    /\ console' = r.console
    /\ UNCHANGED <<heap, ops, value, parsed>>

ToHTML(ref) == Returned(ref, toHTML(value, ActiveRegistry(heap, ref)))

Idle ==
    /\ pc = "idle"
    /\ renderers = 0
    /\ stamp = 0
    /\ threw = FALSE
    /\ html = ""
    /\ spans = <<>>
    /\ console = <<>>
    /\ parsed = Obj(<<>>)

\* one document, converted with the default registry or with the caller's
Init ==
    /\ heap = <<CallerRegistry>>
    /\ ops = 0
    /\ value \in Docs
    /\ Idle

Next == pc = "idle" /\ \E ref \in 0..Len(heap) : ToHTML(ref)

Spec == Init /\ [][Next]_vars

\* callers obtaining and changing registries around conversions of one document
InitRegistry ==
    /\ heap = <<>>
    /\ ops = 0
    /\ value \in RegistryDocs
    /\ Idle

NextRegistry ==
    \/ GetBoxRenderers
    \/ \E ref \in 1..Len(heap), e \in CallerEdits : SetRenderer(ref, e[1], e[2])
    \/ \E ref \in 1..Len(heap), k \in CallerDeletes : DeleteRenderer(ref, k)
    \/ \E ref \in 0..Len(heap) : ToHTML(ref)

SpecRegistry == InitRegistry /\ [][NextRegistry]_vars

(***************************************************************************)
(* A built-in renderer applied to a box value, and the node it returns     *)
(* serialized: the two statements of the try block after JSON.parse.       *)
(***************************************************************************)
\* a key of a box value, left out when v is undefined
Optional(k, v) == IF v = Undefined THEN <<>> ELSE <<Prop(k, v)>>

\* url: absent, empty, a file name, the urls of the tests, a url that ends
\* with a slash, a word with a hyphen, a url with no character of [\w\-]
UrlValues ==
    {Undefined, Str(""), Str("a.png"),
     Str("https://www.youtube.com/watch?v=5sMBhDv4sik"),
     Str("https://x.com/Interior/status/463440424141459456"),
     Str("https://youtu.be/abc/"), Str("a-b_c"), Str("?")}

\* the records JSON.parse gives for the payloads of image, video and twitter
\* boxes: each key absent, empty or set
BoxValues ==
    { Obj(Optional("url", u) \o Optional("width", w)
            \o Optional("height", h) \o Optional("caption", c)) :
        u \in UrlValues,
        w \in {Undefined, Str(""), Str("100")},
        h \in {Undefined, Str(""), Str("200")},
        c \in {Undefined, Str(""), Str("a \"b\" <c>")} }

\* return toBoxHTML(node), or the exception on its way to the catch
Rendered(name, r) ==
    /\ pc' = name
    /\ threw' = ~r.ok
    /\ html' = (IF r.ok THEN r.v ELSE "")
    /\ UNCHANGED <<heap, ops, value, renderers, stamp, spans, console, parsed>>

\* node = render(boxValue, encodeHTMLEntities) with the built-in renderer of name
Render(name) ==
    /\ pc = "idle"
    /\ Rendered(name, RenderValue(LookupRenderer(getBoxRenderers, name), Ok(value)))

InitRender ==
    /\ heap = <<>>
    /\ ops = 0
    /\ value \in BoxValues
    /\ Idle

NextRender == \E name \in {"image", "video", "twitter"} : Render(name)

SpecRender == InitRender /\ [][NextRender]_vars

(***************************************************************************)
(* parseAttributes applied to one opening tag.                             *)
(***************************************************************************)
\* what follows the tag name: nothing, the three forms of key=value, an
\* upper-case key, a bare flag, a key with a colon, a key that holds a double
\* quote, a key that holds a dot, and a value that runs into a quote
AttributeTexts ==
    {"", " name=hr", " name=\"hr\"", " name='hr'", " NAME=\"Img\"", " data-hidden",
     " xml:lang='en'", " na\"me=\"hr\"", " a.b=c", " value=\"e30=\"", " name=hr\""}

\* opening tags that hold up to two of them
OpeningTags == { "<lake-box" \o a \o b \o ">" : a \in AttributeTexts, b \in AttributeTexts }

\* const attributes = parseAttributes(boxOpen)
ParseAttributes ==
    /\ pc = "idle"
    /\ pc' = "parsed"
    /\ parsed' = parseAttributes(value)
    /\ UNCHANGED <<heap, ops, value, renderers, stamp, threw, html, spans, console>>

InitAttributes ==
    /\ heap = <<>>
    /\ ops = 0
    /\ value \in OpeningTags
    /\ Idle

SpecAttributes == InitAttributes /\ [][ParseAttributes]_vars

(***************************************************************************)
(* Reading a finished call: the spans of the document that were matched,   *)
(* and what the source does with each of them.                             *)
(***************************************************************************)
\* the registry the last call used
Registry == ActiveRegistry(heap, renderers)

\* s[i..j] as far as s reaches, empty when j < i
Between(s, i, j) ==
    IF j < i \/ i > Len(s) THEN "" ELSE SubSeq(s, i, IF j > Len(s) THEN Len(s) ELSE j)

\* the text of the document a span covers
SourceOf(sp) == SubSeq(value, sp.from, sp.to)

\* a span of the first alternative of combinedRegex
IsBox(sp) == sp.open # ""

\* attributes.name as the key the registry is read with, and attributes.value
NameOf(sp) == StringOf(GetOwn(parseAttributes(sp.open), "name"))

ValueOf(sp) == GetOwn(parseAttributes(sp.open), "value")

HasValue(sp) == HasOwn(parseAttributes(sp.open), "value")

\* the value attribute is there and Base64 decoding or JSON parsing of it fails
Malformed(sp) == Truthy(ValueOf(sp)) /\ ~BoxValue(ValueOf(sp)).ok

HasSubstringCI(s, lit) == \E p \in 1..Len(s) : MatchesCI(s, p, lit)

\* the document with every span from the k-th on replaced by its text, from i on
RECURSIVE Spliced(_, _)
Spliced(i, k) ==
    IF k > Len(spans) THEN Between(value, i, Len(value))
    ELSE Between(value, i, spans[k].from - 1) \o spans[k].text \o Spliced(spans[k].to + 1, k + 1)

\* the spans lie in the document, in order, without overlap
SpansInOrder ==
    \A k \in 1..Len(spans) :
        /\ 1 <= spans[k].from /\ spans[k].from <= spans[k].to /\ spans[k].to <= Len(value)
        /\ k > 1 => spans[k - 1].to < spans[k].from

(***************************************************************************)
(* C1.  Text outside the matched spans is emitted verbatim and in order:   *)
(* the HTML returned is the document with every matched span replaced, a   *)
(* marker (anchor or focus, whitespace allowed before the slash) by the    *)
(* empty string and a box by what the callback gives for its opening tag,  *)
(* and nothing else changed.  A document that holds no lake-box, anchor or *)
(* focus tag is returned as it is.                                         *)
(***************************************************************************)
C1_VerbatimOutsideSpans ==
    pc = "done" =>
        /\ SpansInOrder
        /\ html = Spliced(1, 1)
        /\ \A k \in 1..Len(spans) :
              IF IsBox(spans[k])
              THEN /\ MatchesCI(SourceOf(spans[k]), 1, "<lake-box")
                   /\ spans[k].text = Replacer(spans[k].open, Registry).text
              ELSE /\ \/ MatchesCI(SourceOf(spans[k]), 1, "<anchor")
                      \/ MatchesCI(SourceOf(spans[k]), 1, "<focus")
                   /\ spans[k].text = ""
        /\ ( /\ ~HasSubstringCI(value, "<lake-box")
             /\ ~HasSubstringCI(value, "<anchor")
             /\ ~HasSubstringCI(value, "<focus") ) => html = value

\* text that is kept, then a marker that is removed
C1_Witness ==
    /\ pc = "done"
    /\ Len(spans) >= 1
    /\ ~IsBox(spans[1])
    /\ spans[1].from > 1
    /\ html # value
    /\ html # ""

(***************************************************************************)
(* C2.  toHTML never throws: whatever the document holds (a payload that   *)
(* is not Base64, not JSON, JSON that is no record, a record without the   *)
(* keys the renderer reads) and whatever the renderers of the registry do  *)
(* (they may raise), the call returns a string.                            *)
(***************************************************************************)
C2_NeverThrows == pc = "done" => ~threw /\ html \in STRING

\* a call that returned although a renderer of the registry raised
C2_Witness ==
    /\ pc = "done"
    /\ ~threw
    /\ \E k \in 1..Len(spans) :
          /\ IsBox(spans[k])
          /\ LookupRenderer(Registry, NameOf(spans[k])) = Fn("raise")
          /\ spans[k].errors = 1

(***************************************************************************)
(* C3.  A box whose name attribute is not a key of the active registry, a  *)
(* missing name attribute included, is replaced by the empty string: no    *)
(* fallback markup, no renderer invoked.                                   *)
(***************************************************************************)
C3_UnknownNameEmpty ==
    pc = "done" =>
        \A k \in 1..Len(spans) :
            IsBox(spans[k]) /\ ~HasOwn(Registry, NameOf(spans[k])) =>
                spans[k].text = "" /\ spans[k].errors = 0

(***************************************************************************)
(* C4.  A box with a known name whose value attribute fails to decode or   *)
(* parse is replaced by the empty string and logged exactly once; the      *)
(* failure stays in that span: the call returns, the text around the spans *)
(* is emitted verbatim, and every other span is replaced by, and logs,     *)
(* what it does in a document of its own.                                  *)
(***************************************************************************)
Agrees(sp, r) == sp.text = r.html /\ sp.errors = Len(r.console)

AsOnItsOwn(sp) == Agrees(sp, toHTML(SourceOf(sp), Registry))

C4_FailureContained ==
    pc = "done" =>
        \A k \in 1..Len(spans) :
            /\ IsBox(spans[k])
            /\ HasOwn(Registry, NameOf(spans[k]))
            /\ Malformed(spans[k])
            => /\ spans[k].text = ""
               /\ spans[k].errors = 1
               /\ ~threw
               /\ html = Spliced(1, 1)
               /\ \A j \in 1..Len(spans) : j # k => AsOnItsOwn(spans[j])

\* a failing box followed by a box that renders
C4_Witness ==
    /\ pc = "done"
    /\ Len(spans) = 2
    /\ HasOwn(Registry, NameOf(spans[1]))
    /\ Malformed(spans[1])
    /\ spans[1].text = ""
    /\ spans[2].text # ""
    /\ spans[2].errors = 0
    /\ Len(console) = 1

(***************************************************************************)
(* C5.  Attribute values are emitted through the entity encoder: for a     *)
(* node a renderer returned, the replacement begins with the tag name and  *)
(* the attributes, each as key, equals sign and the value in double        *)
(* quotes, the value being String of what the renderer supplied with       *)
(* every ampersand, angle bracket, double quote and U+00A0 replaced by     *)
(* its named entity and nothing else changed.  So the attribute text holds *)
(* no double quote but the two around each value, and no angle bracket.    *)
(***************************************************************************)
EntityOf(c) ==
    IF c = "&" THEN "&amp;"
    ELSE IF c = "<" THEN "&lt;"
    ELSE IF c = ">" THEN "&gt;"
    ELSE IF c = "\"" THEN "&quot;"
    ELSE IF c = NBSP THEN "&nbsp;"
    ELSE c

RECURSIVE EntityImage(_)
EntityImage(s) == IF s = "" THEN "" ELSE EntityOf(Head(s)) \o EntityImage(Tail(s))

RECURSIVE ExpectedAttributes(_, _)
ExpectedAttributes(entries, i) ==
    IF i > Len(entries) THEN ""
    ELSE (IF i > 1 THEN " " ELSE "")
         \o entries[i].k \o "=\"" \o EntityImage(StringOf(entries[i].v)) \o "\""
         \o ExpectedAttributes(entries, i + 1)

Occurrences(s, c) == Cardinality({ i \in 1..Len(s) : SubSeq(s, i, i) = c })

\* what the renderer of the span returned, when the callback got that far
NodeWith(render, boxValue) ==
    IF boxValue.ok THEN Invoke(render, boxValue.v) ELSE Throw("none")

NodeFrom(render, v) ==
    IF Truthy(render) THEN NodeWith(render, BoxValue(v)) ELSE Throw("none")

NodeOf(sp) == NodeFrom(LookupRenderer(Registry, NameOf(sp)), ValueOf(sp))

\* the node is a record that holds a record of attributes
HasAttributes(node) ==
    /\ node.ok
    /\ node.v.t = "object"
    /\ GetOwn(node.v, "attributes").t = "object"
    /\ GetOwn(node.v, "attributes").props # <<>>

\* text opens with the tag name and the n attributes expected, which hold no
\* double quote of their own and no angle bracket
AttributesAre(text, tagName, expected, n) ==
    /\ Between(text, 1, 2 + Len(tagName) + Len(expected))
          = "<" \o tagName \o " " \o expected
    /\ Between(text, 3 + Len(tagName) + Len(expected),
                     3 + Len(tagName) + Len(expected)) \in {" ", ">"}
    /\ Occurrences(expected, "\"") = 2 * n
    /\ Occurrences(expected, "<") = 0
    /\ Occurrences(expected, ">") = 0

AttributesEncoded(text, tagName, entries) ==
    AttributesAre(text, tagName, ExpectedAttributes(entries, 1), Len(entries))

NodeEncoded(text, node) ==
    HasAttributes(node) =>
        AttributesEncoded(text, StringOf(GetOwn(node.v, "tagName")),
                          GetOwn(node.v, "attributes").props)

C5_AttributesEncoded ==
    pc = "done" =>
        \A k \in 1..Len(spans) :
            IsBox(spans[k]) => NodeEncoded(spans[k].text, NodeOf(spans[k]))

\* a renderer supplied a value that holds a double quote, an ampersand and an
\* angle bracket
C5_Witness ==
    /\ pc = "done"
    /\ \E k \in 1..Len(spans) :
          /\ IsBox(spans[k])
          /\ HasAttributes(NodeOf(spans[k]))
          /\ \E i \in 1..Len(GetOwn(NodeOf(spans[k]).v, "attributes").props) :
                {"\"", "&", "<"} \subseteq
                    CharsOf(StringOf(GetOwn(NodeOf(spans[k]).v, "attributes").props[i].v))
          /\ spans[k].text # ""

(***************************************************************************)
(* C6.  When a renderer returns a string instead of a node, the string is  *)
(* passed through: the replacement of the span is that string.             *)
(***************************************************************************)
C6_StringPassedThrough ==
    pc = "done" =>
        \A k \in 1..Len(spans) :
            /\ IsBox(spans[k])
            /\ HasOwn(Registry, NameOf(spans[k]))
            /\ NodeOf(spans[k]).ok
            /\ NodeOf(spans[k]).v.t = "string"
            => spans[k].text = NodeOf(spans[k]).v.s

(***************************************************************************)
(* C7.  The accessor returns a fresh registry on every call: whatever      *)
(* callers have obtained, added, replaced or deleted before, a registry    *)
(* obtained now holds exactly the nine built-in renderers, and toHTML      *)
(* called without a registry returns for the document what it returned     *)
(* the time before.                                                        *)
(***************************************************************************)
HoldsTheBuiltins(registry) ==
    /\ ObjectKeys(registry) = <<"hr", "image", "file", "codeBlock", "emoji", "equation",
                                "mention", "video", "twitter">>
    /\ \A i \in 1..Len(registry.props) : registry.props[i].v = Fn(registry.props[i].k)

C7_FreshRegistry ==
    [][ /\ Len(heap') > Len(heap) => HoldsTheBuiltins(heap'[Len(heap')])
        /\ ( /\ pc = "done" /\ renderers = 0
             /\ pc' = "done" /\ renderers' = 0 )
           => html' = html /\ spans' = spans /\ console' = console /\ threw' = threw
      ]_vars

\* a call without a registry that rendered boxes after a caller had changed the
\* first registry and obtained a second one
C7_Witness ==
    /\ pc = "done"
    /\ renderers = 0
    /\ stamp = ops
    /\ Len(heap) = 2
    /\ ~HoldsTheBuiltins(heap[1])
    /\ HoldsTheBuiltins(heap[2])
    /\ \E k \in 1..Len(spans) : spans[k].text # ""

(***************************************************************************)
(* C8.  With a registry obtained from the accessor in which the image      *)
(* entry has been replaced, every image box is rendered by the replacement *)
(* and every box of another built-in type as with the default registry.    *)
(***************************************************************************)
ImageReplacedBy(registry, f) ==
    /\ ObjectKeys(registry) = ObjectKeys(getBoxRenderers)
    /\ \A i \in 1..Len(registry.props) :
          registry.props[i].v = IF registry.props[i].k = "image" THEN Fn(f)
                                ELSE Fn(registry.props[i].k)

C8_OverrideImageOnly ==
    ( /\ pc = "done"
      /\ stamp = ops
      /\ renderers >= 1
      /\ ImageReplacedBy(Registry, "figure") )
    => \A k \in 1..Len(spans) :
          IsBox(spans[k]) /\ HasOwn(getBoxRenderers, NameOf(spans[k])) =>
              IF NameOf(spans[k]) = "image"
              THEN spans[k].text
                     = TryCatch(RenderValue(Fn("figure"), BoxValue(ValueOf(spans[k])))).text
              ELSE spans[k].text = toHTML(SourceOf(spans[k]), getBoxRenderers).html

\* an image box rendered as the figure of the replacement, next to a box of
\* another built-in type
C8_Witness ==
    /\ pc = "done"
    /\ stamp = ops
    /\ renderers >= 1
    /\ ImageReplacedBy(Registry, "figure")
    /\ Len(spans) = 2
    /\ NameOf(spans[1]) = "image"
    /\ spans[1].text = "<figure class=\"custom-image\"></figure>"
    /\ NameOf(spans[2]) = "hr"
    /\ spans[2].text # ""

(***************************************************************************)
(* C9.  As claimed: a box named hr is always replaced by the fixed markup, *)
(* whatever its value attribute is (absent, empty, well-formed or          *)
(* malformed).                                                             *)
(***************************************************************************)
HrMarkup == "<div class=\"lake-box-block lake-hr\"><hr /></div>"

\* the registry holds the built-in renderer under hr
HrIsBuiltin == GetOwn(Registry, "hr") = Fn("hr")

C9_HrWhateverValue ==
    pc = "done" /\ HrIsBuiltin =>
        \A k \in 1..Len(spans) :
            IsBox(spans[k]) /\ NameOf(spans[k]) = "hr" => spans[k].text = HrMarkup

(***************************************************************************)
(* C9, amended.  A box named hr is replaced by the fixed markup, and       *)
(* nothing is logged, whenever its value attribute is absent, empty, or    *)
(* decodes and parses, whatever JSON value it parses to; when the value    *)
(* attribute is malformed the box is replaced by the empty string and      *)
(* logged once, like any other known box.                                  *)
(***************************************************************************)
C9_HrUnlessMalformed ==
    pc = "done" /\ HrIsBuiltin =>
        \A k \in 1..Len(spans) :
            IsBox(spans[k]) /\ NameOf(spans[k]) = "hr" =>
                IF Malformed(spans[k])
                THEN spans[k].text = "" /\ spans[k].errors = 1
                ELSE spans[k].text = HrMarkup /\ spans[k].errors = 0

\* an hr box whose value parses to null, replaced by the fixed markup
C9_Witness ==
    /\ pc = "done"
    /\ HrIsBuiltin
    /\ \E k \in 1..Len(spans) :
          /\ NameOf(spans[k]) = "hr"
          /\ BoxValue(ValueOf(spans[k])) = Ok(Null)
          /\ spans[k].text = HrMarkup

(***************************************************************************)
(* C10.  A box without a value attribute is no error: its renderer gets an *)
(* empty record, and every built-in renderer then produces fallback        *)
(* output, with no exception, no log and no empty replacement; for image   *)
(* the output is an img with src undefined and border 0, the same as for a *)
(* payload that decodes to an empty record.                                *)
(***************************************************************************)
C10_AbsentValueFallback ==
    pc = "done" =>
        \A k \in 1..Len(spans) :
            /\ IsBox(spans[k])
            /\ HasOwn(getBoxRenderers, NameOf(spans[k]))
            /\ LookupRenderer(Registry, NameOf(spans[k])) = Fn(NameOf(spans[k]))
            /\ ~HasValue(spans[k])
            => /\ spans[k].errors = 0
               /\ spans[k].text # ""
               /\ spans[k].text = TryCatch(RenderValue(Fn(NameOf(spans[k])), Ok(Obj(<<>>)))).text
               /\ NameOf(spans[k]) = "image" =>
                     spans[k].text = "<img src=\"undefined\" border=\"0\" />"

(***************************************************************************)
(* C11.  For every box value the image renderer gives a void img element   *)
(* whose attributes are, in this order, src from url, then width, height   *)
(* and alt, each there exactly when the key width, height or caption of    *)
(* the box value is present and not empty, then border 0.  An absent or    *)
(* empty key gives no attribute at all, never an attribute with an empty   *)
(* value.                                                                  *)
(***************************************************************************)
\* the key is present in the box value and its string is not empty
PresentNonEmpty(boxValue, k) == HasOwn(boxValue, k) /\ GetOwn(boxValue, k) # Str("")

\* the attribute name for the key k of the box value, or nothing
AttributeIfSet(boxValue, k, name) ==
    IF PresentNonEmpty(boxValue, k)
    THEN " " \o name \o "=\"" \o EntityImage(GetOwn(boxValue, k).s) \o "\""
    ELSE ""

ExpectedImg(boxValue) ==
    "<img src=\"" \o EntityImage(StringOf(GetOwn(boxValue, "url"))) \o "\""
    \o AttributeIfSet(boxValue, "width", "width")
    \o AttributeIfSet(boxValue, "height", "height")
    \o AttributeIfSet(boxValue, "caption", "alt")
    \o " border=\"0\" />"

EmbedIdChars == CharsOf(UpperLetters \o LowerLetters \o Digits \o "_-")

\* the longest run of id characters that ends s
RECURSIVE TrailingRun(_)
TrailingRun(s) ==
    IF s = "" \/ SubSeq(s, Len(s), Len(s)) \notin EmbedIdChars THEN ""
    ELSE TrailingRun(SubSeq(s, 1, Len(s) - 1)) \o SubSeq(s, Len(s), Len(s))

\* s without the characters after its last id character
RECURSIVE UpToLastIdChar(_)
UpToLastIdChar(s) ==
    IF s = "" \/ SubSeq(s, Len(s), Len(s)) \in EmbedIdChars THEN s
    ELSE UpToLastIdChar(SubSeq(s, 1, Len(s) - 1))

\* the last maximal run of id characters anywhere in s
FinalRun(s) == TrailingRun(UpToLastIdChar(s))

EmbedEndpoint(name) ==
    IF name = "video" THEN "https://www.youtube.com/embed/"
    ELSE "https://platform.twitter.com/embed/Tweet.html?id="

\* the attributes after src, and the end of the element
EmbedRest(name) ==
    IF name = "video"
    THEN " title=\"YouTube video player\" frameborder=\"0\""
         \o " allow=\"accelerometer; autoplay; clipboard-write; encrypted-media; gyroscope; picture-in-picture; web-share\""
         \o " referrerpolicy=\"strict-origin-when-cross-origin\" allowfullscreen=\"true\""
         \o " style=\"width: 560px; height: 315px;\"></iframe>"
    ELSE " title=\"Twitter tweet\" scrolling=\"no\" frameborder=\"0\""
         \o " allowtransparency=\"true\" allowfullscreen=\"true\""
         \o " style=\"width: 550px; height: 300px;\"></iframe>"

IframeWithSrc(name, id) ==
    "<iframe src=\"" \o EmbedEndpoint(name) \o id \o "\"" \o EmbedRest(name)

C14_EmbedFinalRun ==
    pc \in {"video", "twitter"} /\ HasOwn(value, "url") =>
        /\ ~threw
        /\ html = IframeWithSrc(pc, FinalRun(GetOwn(value, "url").s))

(***************************************************************************)
(* C14, amended.  For video and twitter boxes whose url is present and not *)
(* empty, the id is the longest run of characters of [A-Za-z0-9_-] that    *)
(* ends url, empty when url ends with another character, and the src of    *)
(* the iframe is the embed endpoint followed by that id.  When url is      *)
(* absent or empty the iframe has no src attribute at all.                 *)
(***************************************************************************)
C14_EmbedTrailingRun ==
    pc \in {"video", "twitter"} =>
        /\ ~threw
        /\ html = IF PresentNonEmpty(value, "url")
                  THEN IframeWithSrc(pc, TrailingRun(GetOwn(value, "url").s))
                  ELSE "<iframe" \o EmbedRest(pc)

\* the url of the video test, whose id follows v=
C14_Witness ==
    /\ pc = "video"
    /\ GetOwn(value, "url") = Str("https://www.youtube.com/watch?v=5sMBhDv4sik")
    /\ html = IframeWithSrc("video", "5sMBhDv4sik")

(***************************************************************************)
(* C13.  parseAttributes applied to an opening tag returns exactly the map *)
(* of its key=value occurrences.  An occurrence counts in the unquoted,    *)
(* the double-quoted and the single-quoted form alike, and only when its   *)
(* key consists solely of word, hyphen and colon characters and it is      *)
(* followed by whitespace, a slash or the end of the tag.  Keys are put in *)
(* lower case, a bare flag gives no entry, and of two occurrences of a key *)
(* the later one gives the value.                                          *)
(***************************************************************************)
NoEntry == [ok |-> FALSE]

\* the position of the first equals sign of text, 0 when it has none
EqualsAt(text) ==
    IF \A i \in 1..Len(text) : SubSeq(text, i, i) # "=" THEN 0
    ELSE CHOOSE i \in 1..Len(text) :
            /\ SubSeq(text, i, i) = "="
            /\ \A j \in 1..(i - 1) : SubSeq(text, j, j) # "="

\* a value as written: between two double quotes, between two single quotes, or
\* bare, when it is not empty and holds no whitespace, quote or angle bracket
WrittenValue(key, w) ==
    IF /\ Len(w) >= 2
       /\ SubSeq(w, 1, 1) \in {"\"", "'"}
       /\ SubSeq(w, Len(w), Len(w)) = SubSeq(w, 1, 1)
       /\ SubSeq(w, 1, 1) \notin CharsOf(SubSeq(w, 2, Len(w) - 1))
    THEN [ok |-> TRUE, key |-> key, val |-> SubSeq(w, 2, Len(w) - 1)]
    ELSE IF w # "" /\ CharsOf(w) \cap (SpaceChars \cup {"\"", "'", "<", ">"}) = {}
    THEN [ok |-> TRUE, key |-> key, val |-> w]
    ELSE NoEntry

\* the entry of an occurrence whose key starts after one space and whose equals
\* sign is at eq
EntryAt(text, eq) ==
    IF /\ eq > 2
       /\ CharsOf(SubSeq(text, 2, eq - 1)) \subseteq EmbedIdChars \cup {":"}
    THEN WrittenValue(toLowerCase(SubSeq(text, 2, eq - 1)), SubSeq(text, eq + 1, Len(text)))
    ELSE NoEntry

EntryOf(text) == EntryAt(text, EqualsAt(text))

\* the map of two occurrences in a row: the later one wins
MapOfEntries(first, second) ==
    [k \in {e.key : e \in {x \in {first, second} : x.ok}} |->
        IF second.ok /\ second.key = k THEN second.val ELSE first.val]

\* the object as a map from its keys to its strings
MapOfObject(o) == [k \in {o.props[i].k : i \in 1..Len(o.props)} |-> GetOwn(o, k).s]

C13_ExactlyTheOccurrences ==
    pc = "parsed" =>
        \A a \in AttributeTexts, b \in AttributeTexts :
            value = "<lake-box" \o a \o b \o ">" =>
                MapOfObject(parsed) = MapOfEntries(EntryOf(a), EntryOf(b))

(***************************************************************************)
(* C12.  As claimed: the replacement of a box span depends only on its     *)
(* opening tag.  The span runs from the opening tag to the first closing   *)
(* tag after it or, when there is none, to the end of the document; a box  *)
(* that is not closed is converted from its opening tag all the same; and  *)
(* what lies between the opening tag and the end of the span is dropped,   *)
(* so that the opening tag, any content and a closing tag convert to what  *)
(* the opening tag and a closing tag convert to, and to what the opening   *)
(* tag alone converts to, for every content.                               *)
(***************************************************************************)
\* the position after the opening tag of a span
AfterOpen(sp) == sp.from + Len(sp.open)

\* where a closing tag starts after the opening tag of a span
ClosesAfter(sp) ==
    { q \in AfterOpen(sp)..Len(value) : MatchesCI(value, q, "</lake-box>") }

Least(S) == CHOOSE q \in S : \A o \in S : q <= o

\* the opening tag of the span, what follows it up to q, and the closing tag at q
\* convert to alone, as do the opening tag and that closing tag
ContentDropped(sp, q, alone) ==
    /\ toHTML(Between(value, sp.from, q + 10), Registry).html = alone
    /\ toHTML(sp.open \o Between(value, q, q + 10), Registry).html = alone

\* the span is replaced by alone, what its opening tag converts to on its own, and
\* ends with the first of the closing tags at closes, or with the document
OpeningTagDecides(sp, closes, alone) ==
    /\ sp.text = alone
    /\ sp.to = IF closes = {} THEN Len(value) ELSE Least(closes) + 10
    /\ closes = {} => toHTML(Between(value, sp.from, Len(value)), Registry).html = alone

AnyContentDropped(sp, closes, alone) ==
    /\ OpeningTagDecides(sp, closes, alone)
    /\ \A q \in closes : ContentDropped(sp, q, alone)

C12_AnyContentDropped ==
    pc = "done" =>
        \A k \in 1..Len(spans) :
            IsBox(spans[k]) =>
                AnyContentDropped(spans[k], ClosesAfter(spans[k]),
                                  toHTML(spans[k].open, Registry).html)

(***************************************************************************)
(* C12, amended.  The same, for every content that holds no closing tag:   *)
(* the span ends with the first closing tag after the opening tag, and the *)
(* opening tag, the content up to that closing tag and the closing tag     *)
(* convert to what the opening tag alone converts to.  What follows the    *)
(* first closing tag is outside the span and is converted in its turn.     *)
(***************************************************************************)
ContentBeforeCloseDropped(sp, closes, alone) ==
    /\ OpeningTagDecides(sp, closes, alone)
    /\ closes # {} => ContentDropped(sp, Least(closes), alone)

C12_ContentBeforeCloseDropped ==
    pc = "done" =>
        \A k \in 1..Len(spans) :
            IsBox(spans[k]) =>
                ContentBeforeCloseDropped(spans[k], ClosesAfter(spans[k]),
                                          toHTML(spans[k].open, Registry).html)

\* a box with content between its opening tag and its closing tag: the content
\* is not in the output
C12_Witness ==
    /\ pc = "done"
    /\ Len(spans) = 1
    /\ IsBox(spans[1])
    /\ ClosesAfter(spans[1]) # {}
    /\ Least(ClosesAfter(spans[1])) > AfterOpen(spans[1])
    /\ spans[1].to = Len(value)
    /\ html = spans[1].text
    /\ html # ""

====
